---- MODULE Spec2Model ----
(***************************************************************************)
(* A model of the kops task engine's Context (upup/pkg/fi/context.go):     *)
(* Render (lifecycle policy, dry-run delegation, reflective dispatch to a  *)
(* task's Render* method), the scratch directory (NewContext, NewTempDir,  *)
(* Close), RunTasks, and of cloudup's assignProxy / incrementIP.           *)
(***************************************************************************)
EXTENDS Integers, Sequences, FiniteSets, TLC

VARIABLES
    \* ---- Context.Render ----
    Target,      \* c.Target: the kind of the active target (DryRunKind or a real kind)
    taskType,    \* the Go type of the task: its method set and whether it is a HasLifecycle
    expected,    \* e: the task held in c.tasks
    rpc,         \* "ready" before the call of Render, "returned" after it
    actual,      \* a, as passed to Render
    changes,     \* changes, as passed to Render
    oracle,      \* what the collaborators answer in this call (buildChangeList, the routine)
    ret,         \* the error Render returned ("nil" for none)
    stderr,      \* the lines Render wrote to os.Stderr
    recorded,    \* the triples the DryRunTarget recorded
    invoked,     \* the task methods Render called, with their arguments
    \* ---- NewContext / NewTempDir / Close ----
    fs,          \* the directories that exist, each a path below os.TempDir()
    foreign,     \* the directories other processes made there before NewContext
    ctx,         \* "none" before NewContext, "ok" with a Context, "failed" with nil and an error
    Tmpdir,      \* c.Tmpdir (<<>> for "")
    handedOut,   \* the paths NewTempDir returned, in call order
    lastErr,     \* the error the last call returned to its caller
    warned,      \* the last Close logged a removal failure
    closes,      \* the number of calls of Close
    \* ---- RunTasks ----
    deps,        \* the dependencies each task of c.tasks declares
    tstate,      \* each task: "pending", "running", "done", "failed", "timedout", "skipped"
    doneAtStart, \* for each task, the tasks that were done when it was started
    run,         \* RunTasks: "notcalled", "running", or what it returned
    \* ---- assignProxy ----
    cluster,     \* the kops.Cluster given to assignProxy; a string is its sequence of characters
    ppc,         \* "ready" before the call of assignProxy, "returned" after it
    proxyOut,    \* the *EgressProxySpec it returned (<<>> for nil)
    proxyErr     \* the error it returned

rvars == <<Target, taskType, expected, rpc, actual, changes, oracle, ret, stderr,
           recorded, invoked>>
svars == <<fs, foreign, ctx, Tmpdir, handedOut, lastErr, warned, closes>>
evars == <<deps, tstate, doneAtStart, run>>
pvars == <<cluster, ppc, proxyOut, proxyErr>>

(***************************************************************************)
(* Bounds                                                                  *)
(***************************************************************************)
NumKinds == 2       \* real target kinds 1..NumKinds
MaxMethods == 2     \* methods a task type declares
NumSuffixes == 3    \* the random suffixes ioutil.TempDir can draw
MaxTempDirs == 2    \* calls of NewTempDir that succeed
MaxCloses == 2      \* calls of Close
NumTasks == 3       \* tasks in c.tasks

(***************************************************************************)
(* Tasks.  a, e and changes are pointers to the same struct type; a field  *)
(* is <<>> when unset and <<v>> when set.  A value is its lines of text.   *)
(***************************************************************************)
DryRunKind == 0
Kinds == 1..NumKinds
TargetKinds == {DryRunKind} \cup Kinds

Fields == <<"Name", "id">>
NotCompared == {"id"}
Values == {<<"foo">>, <<"bar", "baz">>}

LifecycleExistsAndValidates == "ExistsAndValidates"
LifecycleExistsAndWarnIfChanges == "ExistsAndWarnIfChanges"
LifecycleSync == "Sync"
LifecycleIgnore == "Ignore"
Lifecycles == {LifecycleSync, LifecycleIgnore, LifecycleExistsAndValidates,
               LifecycleExistsAndWarnIfChanges}

NilTask == [isNil |-> TRUE, Name |-> <<>>, id |-> <<>>, Lifecycle |-> <<>>]
MkTask(n, i, lc) == [isNil |-> FALSE, Name |-> n, id |-> i, Lifecycle |-> lc]
IsNil(t) == t.isNil

\* the values a present task can have: every field set
PresentTasks(lcs) == {MkTask(<<n>>, <<i>>, lc) : n \in Values, i \in Values, lc \in lcs}

\* the delta a task computes before calling Render: the fields of e that differ from a
Delta(a, e) ==
    [isNil |-> FALSE,
     Name |-> IF a.Name = e.Name THEN <<>> ELSE e.Name,
     id |-> IF a.id = e.id THEN <<>> ELSE e.id,
     Lifecycle |-> <<>>]
EmptyChanges == [isNil |-> FALSE, Name |-> <<>>, id |-> <<>>, Lifecycle |-> <<>>]

(***************************************************************************)
(* Method sets.  A parameter type is the task's own type, *Context, the    *)
(* type of a target kind, or some other type.                              *)
(***************************************************************************)
TSelf == [tag |-> "Self", kind |-> 0]
TContext == [tag |-> "Context", kind |-> 0]
TTarget(k) == [tag |-> "Target", kind |-> k]
TOther == [tag |-> "Other", kind |-> 0]

\* RenderK<k>(t *K<k>Target, a, e, changes *T)
RenderK(k) == [name |-> <<"Render", "K", k>>,
               params |-> <<TSelf, TTarget(k), TSelf, TSelf, TSelf>>]
\* RenderCtxK<k>(c *Context, t *K<k>Target, a, e, changes *T)
RenderCtxK(k) == [name |-> <<"Render", "CtxK", k>>,
                  params |-> <<TSelf, TContext, TTarget(k), TSelf, TSelf, TSelf>>]
\* Render(c *Context, a, e, changes *T)
RenderAny == [name |-> <<"Render", "", 0>>,
              params |-> <<TSelf, TContext, TSelf, TSelf, TSelf>>]
\* RenderText(s string, a, e, changes *T)
RenderText == [name |-> <<"Render", "Text", 0>>,
               params |-> <<TSelf, TOther, TSelf, TSelf, TSelf>>]
\* Run(c *Context)
RunMethod == [name |-> <<"Run", "", 0>>, params |-> <<TSelf, TContext>>]

Catalogue == {RenderK(k) : k \in Kinds} \cup {RenderCtxK(1), RenderAny, RenderText, RunMethod}
MethodSets == {ms \in SUBSET Catalogue : Cardinality(ms) <= MaxMethods}
TaskTypes == [methods : MethodSets, hasLifecycle : BOOLEAN]

(***************************************************************************)
(* Context.Render, step 1: the lifecycle policy                            *)
(***************************************************************************)
NoError == "nil"
ErrNotFoundValidates == "Lifecycle set to ExistsAndValidates, but object was not found"
ErrNotFoundWarn == "Lifecycle set to ExistsAndWarnIfChanges, but object was not found"
ErrDidNotMatch == "Lifecycle set to ExistsAndValidates, but object did not match"
ErrMultiple == "Found multiple Render methods that could be invokved"
ErrNoRenderer == "Could not find Render method"
ErrBuildChangeList == "buildChangeList failed"
ErrRoutine == "routine failed"

\* lifecycle = hl.GetLifecycle() when e is a HasLifecycle, else nil
GetLifecycle(tt, e) == IF tt.hasLifecycle THEN e.Lifecycle ELSE <<>>

\* " <a> -> <e>", as the lines strings.Split(change.Description, "\n") yields
DescriptionLines(av, ev) ==
    [i \in 1..(Len(av) - 1) |-> <<av[i]>>]
        \o << <<av[Len(av)], "->", ev[1]>> >>
        \o [i \in 1..(Len(ev) - 1) |-> <<ev[i + 1]>>]

RECURSIVE ChangesFrom(_, _, _)
ChangesFrom(i, a, e) ==
    IF i > Len(Fields) THEN <<>>
    ELSE LET f == Fields[i]
         IN (IF f \notin NotCompared /\ a[f] # e[f]
             THEN <<[FieldName |-> f, Description |-> DescriptionLines(a[f][1], e[f][1])]>>
             ELSE <<>>) \o ChangesFrom(i + 1, a, e)

\* buildChangeList(a, e, changes): the compared fields on which a and e differ, in
\* declaration order; fails is whether it returns an error for these arguments
buildChangeList(a, e, chg, fails) ==
    IF fails THEN [err |-> ErrBuildChangeList, list |-> <<>>]
    ELSE [err |-> NoError, list |-> ChangesFrom(1, a, e)]

getTaskName(e) == "Task"

ReportLine(field, text) == [field |-> field, text |-> text]

RECURSIVE ChangeLines(_)
ChangeLines(changeList) ==
    IF changeList = <<>> THEN <<>>
    ELSE LET change == Head(changeList)
             lines == change.Description
         IN (IF Len(lines) = 1
             THEN <<ReportLine(change.FieldName, lines[1])>>
             ELSE <<ReportLine(change.FieldName, <<>>)>>
                  \o [i \in 1..Len(lines) |-> ReportLine("", lines[i])])
            \o ChangeLines(Tail(changeList))

\* FormatReport without the loop over the change list
FormatReport_NoFields(e, changeList) ==
    <<ReportLine("", <<"Object from different phase did not match, problems possible:">>),
      ReportLine("", <<getTaskName(e), "/", "?">>),
      ReportLine("", <<>>)>>

\* what Render writes into the buffer b and then to os.Stderr
FormatReport(e, changeList) ==
    <<ReportLine("", <<"Object from different phase did not match, problems possible:">>),
      ReportLine("", <<getTaskName(e), "/", "?">>)>>
    \o ChangeLines(changeList)
    \o <<ReportLine("", <<>>)>>

FallThrough == [returned |-> FALSE, ret |-> NoError, stderr |-> <<>>]
ReturnError(err) == [returned |-> TRUE, ret |-> err, stderr |-> <<>>]

\* LifecycleStep without the ExistsAndWarnIfChanges case of the nil-actual switch
LifecycleStep_AbsentWarnFallsThrough(tt, a, e, chg, buildFails) ==
    LET lifecycle == GetLifecycle(tt, e)
    IN IF lifecycle = <<>> THEN FallThrough
       ELSE IF IsNil(a)
       THEN CASE lifecycle[1] = LifecycleExistsAndValidates -> ReturnError(ErrNotFoundValidates)
              [] OTHER -> FallThrough
       ELSE IF lifecycle[1] \in {LifecycleExistsAndValidates, LifecycleExistsAndWarnIfChanges}
       THEN LET built == buildChangeList(a, e, chg, buildFails)
            IN IF built.err # NoError THEN ReturnError(built.err)
               ELSE [returned |-> TRUE,
                     ret |-> IF lifecycle[1] = LifecycleExistsAndValidates
                             THEN ErrDidNotMatch ELSE NoError,
                     stderr |-> FormatReport(e, built.list)]
       ELSE FallThrough

LifecycleStep(tt, a, e, chg, buildFails) ==
    LET lifecycle == GetLifecycle(tt, e)
    IN IF lifecycle = <<>> THEN FallThrough
       ELSE IF IsNil(a)
       THEN CASE lifecycle[1] = LifecycleExistsAndValidates -> ReturnError(ErrNotFoundValidates)
              [] lifecycle[1] = LifecycleExistsAndWarnIfChanges -> ReturnError(ErrNotFoundWarn)
              [] OTHER -> FallThrough
       ELSE IF lifecycle[1] \in {LifecycleExistsAndValidates, LifecycleExistsAndWarnIfChanges}
       THEN LET built == buildChangeList(a, e, chg, buildFails)
            IN IF built.err # NoError THEN ReturnError(built.err)
               ELSE [returned |-> TRUE,
                     ret |-> IF lifecycle[1] = LifecycleExistsAndValidates
                             THEN ErrDidNotMatch ELSE NoError,
                     stderr |-> FormatReport(e, built.list)]
       ELSE FallThrough

(***************************************************************************)
(* Context.Render, steps 2 and 3: the dry-run target, or the one Render*   *)
(* method whose parameters the call can supply                             *)
(***************************************************************************)
ArgContext == [tag |-> "Context", kind |-> 0, task |-> NilTask]
ArgTarget(k) == [tag |-> "Target", kind |-> k, task |-> NilTask]
ArgTask(t) == [tag |-> "Task", kind |-> 0, task |-> t]

\* DryRunTarget.Render(a, e, changes): records the triple, returns no error
DryRunRender(a, e, chg) == [ret |-> NoError, recorded |-> <<<<a, e, chg>>>>]

\* strings.HasPrefix(method.Name, "Render")
HasRenderPrefix(m) == m.name[1] = "Render"

\* ParamBinds taking the target of any kind for the active one
ParamBinds_AnyTarget(p, tgt) ==
    \/ p = TSelf
    \/ p = TContext
    \/ p.tag = "Target"

\* arg.ConvertibleTo(vType), .ConvertibleTo(typeContextPtr), .ConvertibleTo(targetType)
ParamBinds(p, tgt) ==
    \/ p = TSelf
    \/ p = TContext
    \/ p = TTarget(tgt)

\* match: every parameter of the method is one of the three
MethodMatches(m, tgt) == \A j \in 1..Len(m.params) : ParamBinds(m.params[j], tgt)

RECURSIVE BoundArgs(_, _, _)
BoundArgs(params, j, tgt) ==
    IF j > Len(params) THEN <<>>
    ELSE (CASE params[j] = TSelf -> <<>>
            [] params[j] = TContext -> <<ArgContext>>
            [] params[j] = TTarget(tgt) -> <<ArgTarget(tgt)>>
            [] OTHER -> <<>>) \o BoundArgs(params, j + 1, tgt)

\* rendererArgs: the bound Context and Target, then a, e, changes
RendererArgs(m, tgt, a, e, chg) ==
    BoundArgs(m.params, 1, tgt) \o <<ArgTask(a), ArgTask(e), ArgTask(chg)>>

Renderers(tt, tgt) == {m \in tt.methods : HasRenderPrefix(m) /\ MethodMatches(m, tgt)}

\* Dispatch without the check for a second match: the last match is called
Dispatch_NoAmbiguityCheck(tt, tgt, a, e, chg, routineErr) ==
    LET found == Renderers(tt, tgt)
    IN IF found = {}
       THEN [ret |-> ErrNoRenderer, recorded |-> <<>>, invoked |-> <<>>]
       ELSE LET renderer == CHOOSE m \in found : TRUE
            IN [ret |-> routineErr, recorded |-> <<>>,
                invoked |-> <<[method |-> renderer.name,
                               args |-> RendererArgs(renderer, tgt, a, e, chg)]>>]

Dispatch(tt, tgt, a, e, chg, routineErr) ==
    LET found == Renderers(tt, tgt)
    IN IF Cardinality(found) > 1
       THEN [ret |-> ErrMultiple, recorded |-> <<>>, invoked |-> <<>>]
       ELSE IF found = {}
       THEN [ret |-> ErrNoRenderer, recorded |-> <<>>, invoked |-> <<>>]
       ELSE LET renderer == CHOOSE m \in found : TRUE
            IN [ret |-> routineErr, recorded |-> <<>>,
                invoked |-> <<[method |-> renderer.name,
                               args |-> RendererArgs(renderer, tgt, a, e, chg)]>>]

\* TargetStep without the return after the dry-run target's Render
TargetStep_DryRunGoesOn(tt, tgt, a, e, chg, routineErr) ==
    LET disp == Dispatch(tt, tgt, a, e, chg, routineErr)
    IN IF tgt = DryRunKind
       THEN LET dry == DryRunRender(a, e, chg)
            IN [ret |-> disp.ret, recorded |-> dry.recorded, invoked |-> disp.invoked]
       ELSE disp

TargetStep(tt, tgt, a, e, chg, routineErr) ==
    IF tgt = DryRunKind
    THEN LET dry == DryRunRender(a, e, chg)
         IN [ret |-> dry.ret, recorded |-> dry.recorded, invoked |-> <<>>]
    ELSE Dispatch(tt, tgt, a, e, chg, routineErr)

\* Render with the dry-run test ahead of the lifecycle policy
RenderOutcome_DryRunFirst(tt, tgt, a, e, chg, orc) ==
    LET life == LifecycleStep(tt, a, e, chg, orc.buildFails)
        tstep == TargetStep(tt, tgt, a, e, chg, orc.routineErr)
    IN IF tgt # DryRunKind /\ life.returned
       THEN [ret |-> life.ret, stderr |-> life.stderr, recorded |-> <<>>, invoked |-> <<>>]
       ELSE [ret |-> tstep.ret, stderr |-> <<>>, recorded |-> tstep.recorded,
             invoked |-> tstep.invoked]

\* Render(a, e, changes) against target tgt: what it returns, writes, records and calls
RenderOutcome(tt, tgt, a, e, chg, orc) ==
    LET life == LifecycleStep(tt, a, e, chg, orc.buildFails)
    IN IF life.returned
       THEN [ret |-> life.ret, stderr |-> life.stderr, recorded |-> <<>>, invoked |-> <<>>]
       ELSE LET tstep == TargetStep(tt, tgt, a, e, chg, orc.routineErr)
            IN [ret |-> tstep.ret, stderr |-> <<>>, recorded |-> tstep.recorded,
                invoked |-> tstep.invoked]

Oracles == [buildFails : BOOLEAN, routineErr : {NoError, ErrRoutine}]
NoOracle == [buildFails |-> FALSE, routineErr |-> NoError]

\* the state before Render is called: a context with a target and a task
InitRender ==
    /\ Target \in TargetKinds
    /\ taskType \in TaskTypes
    /\ expected \in PresentTasks(IF taskType.hasLifecycle
                                 THEN {<<>>} \cup {<<l>> : l \in Lifecycles}
                                 ELSE {<<>>})
    /\ rpc = "ready"
    /\ actual = NilTask
    /\ changes = NilTask
    /\ oracle = NoOracle
    /\ ret = NoError
    /\ stderr = <<>>
    /\ recorded = <<>>
    /\ invoked = <<>>

Render(a, chg, orc) ==
    /\ rpc = "ready"
    /\ LET out == RenderOutcome(taskType, Target, a, expected, chg, orc)
       IN /\ ret' = out.ret
          /\ stderr' = out.stderr
          /\ recorded' = out.recorded
          /\ invoked' = out.invoked
    /\ actual' = a
    /\ changes' = chg
    /\ oracle' = orc
    /\ rpc' = "returned"
    /\ UNCHANGED <<Target, taskType, expected>>

RenderCall ==
    \E a \in {NilTask} \cup PresentTasks({<<>>}), orc \in Oracles :
        \E chg \in {EmptyChanges} \cup (IF IsNil(a) THEN {expected} ELSE {Delta(a, expected)}) :
            Render(a, chg, orc)


(***************************************************************************)
(* Claims about Context.Render                                             *)
(***************************************************************************)
Returned == rpc = "returned"
Policy == IF taskType.hasLifecycle THEN expected.Lifecycle ELSE <<>>
MustExist == Policy \in {<<LifecycleExistsAndValidates>>, <<LifecycleExistsAndWarnIfChanges>>}
LifecycleErrors == {ErrNotFoundValidates, ErrNotFoundWarn, ErrDidNotMatch}
Triple == <<actual, expected, changes>>
ReportNames(f) == \E i \in 1..Len(stderr) : stderr[i].field = f
\* the target step ran: the dry-run target recorded, or the dispatch ended one of its three ways
TargetStepRan ==
    IF Target = DryRunKind
    THEN recorded = <<Triple>> /\ invoked = <<>>
    ELSE recorded = <<>> /\ (\/ Len(invoked) = 1
                             \/ invoked = <<>> /\ ret \in {ErrMultiple, ErrNoRenderer})
DiffersIn(f) == actual[f] # expected[f]

\* C1: with a nil actual, the policies ExistsAndValidates and ExistsAndWarnIfChanges make
\* Render return their "object was not found" error with nothing recorded and no routine
\* called; any other policy, or none, raises no lifecycle error and reaches the target step.
C1_AbsentActual ==
    (Returned /\ IsNil(actual)) =>
        /\ Policy = <<LifecycleExistsAndValidates>> =>
               ret = ErrNotFoundValidates /\ recorded = <<>> /\ invoked = <<>> /\ stderr = <<>>
        /\ Policy = <<LifecycleExistsAndWarnIfChanges>> =>
               ret = ErrNotFoundWarn /\ recorded = <<>> /\ invoked = <<>> /\ stderr = <<>>
        /\ ~MustExist => ret \notin LifecycleErrors /\ TargetStepRan

C1_Witness ==
    /\ Returned /\ IsNil(actual)
    /\ Policy = <<LifecycleExistsAndWarnIfChanges>>
    /\ ret = ErrNotFoundWarn
    /\ Target \in Kinds

\* C2 as stated: with a present actual that differs from expected in a field F, under
\* ExistsAndValidates the report naming F is written and Render returns "object did not
\* match"; under ExistsAndWarnIfChanges the report naming F is written and Render returns
\* no error and calls no routine.
C2_Original ==
    (Returned /\ ~IsNil(actual) /\ MustExist) =>
        \A i \in 1..Len(Fields) :
            DiffersIn(Fields[i]) =>
                /\ ReportNames(Fields[i])
                /\ invoked = <<>>
                /\ ret = IF Policy = <<LifecycleExistsAndValidates>>
                         THEN ErrDidNotMatch ELSE NoError

\* C2 as amended: the same for a compared field F when buildChangeList returns no error;
\* when it returns an error, Render returns that error and writes no report.  In no case is
\* a routine called or a triple recorded.
C2_Divergence ==
    (Returned /\ ~IsNil(actual) /\ MustExist) =>
        /\ invoked = <<>> /\ recorded = <<>>
        /\ oracle.buildFails => ret = ErrBuildChangeList /\ stderr = <<>>
        /\ ~oracle.buildFails =>
               /\ ret = IF Policy = <<LifecycleExistsAndValidates>>
                        THEN ErrDidNotMatch ELSE NoError
               /\ \A i \in 1..Len(Fields) :
                      (DiffersIn(Fields[i]) /\ Fields[i] \notin NotCompared) =>
                          ReportNames(Fields[i])

C2_Witness ==
    /\ Returned /\ ~IsNil(actual)
    /\ Policy = <<LifecycleExistsAndWarnIfChanges>>
    /\ DiffersIn("Name") /\ ReportNames("Name")
    /\ ret = NoError
    /\ Target \in Kinds /\ Renderers(taskType, Target) # {}

RenderMethods == {m \in taskType.methods : m.name[1] = "Render"}
ParamsOf(m) == {m.params[j] : j \in 1..Len(m.params)}
DeclaredFor(m, k) == TTarget(k) \in ParamsOf(m) /\ ParamsOf(m) \subseteq {TSelf, TContext, TTarget(k)}
CompatibleWith(m, k) == ParamsOf(m) \subseteq {TSelf, TContext, TTarget(k)}
\* every Render* method is declared for a real kind, no two for the same one, and n >= 1
DistinctKindsDeclared ==
    /\ RenderMethods # {}
    /\ \A m \in RenderMethods : \E k \in Kinds : DeclaredFor(m, k)
    /\ \A m1, m2 \in RenderMethods :
           (m1 # m2) => ~(\E k \in Kinds : DeclaredFor(m1, k) /\ DeclaredFor(m2, k))
IsBound(p) == p # TSelf
ArgFor(p) == IF p = TContext THEN ArgContext ELSE ArgTarget(p.kind)
ExpectedArgs(m) ==
    LET bound == SelectSeq(m.params, IsBound)
    IN [i \in 1..Len(bound) |-> ArgFor(bound[i])]
           \o <<ArgTask(actual), ArgTask(expected), ArgTask(changes)>>
DispatchUnique ==
    /\ recorded = <<>>
    /\ \A m \in RenderMethods :
           DeclaredFor(m, Target) =>
               /\ invoked = <<[method |-> m.name, args |-> ExpectedArgs(m)]>>
               /\ ret = oracle.routineErr
    /\ (~\E m \in RenderMethods : DeclaredFor(m, Target)) =>
           invoked = <<>> /\ ret = ErrNoRenderer

\* the call in which ExistsAndValidates meets a present actual with nothing to report (C7)
ValidatesMatching ==
    /\ Policy = <<LifecycleExistsAndValidates>>
    /\ ~IsNil(actual)
    /\ ChangesFrom(1, actual, expected) = <<>>

\* C4 as stated: for a task whose Render* methods are declared for pairwise distinct real
\* kinds, Render against a real kind calls exactly the method declared for it, once, with
\* the bound Context/Target arguments and then a, e, changes, and returns its error; against
\* a real kind with no method it calls nothing and returns "Could not find Render method".
\* (Stated for all calls but those of C7, so that what refutes it is the policy as designed.)
C4_Original ==
    (Returned /\ Target \in Kinds /\ DistinctKindsDeclared /\ ~ValidatesMatching) =>
        DispatchUnique

\* C4 as amended: the same, for the calls in which the lifecycle step falls through (the
\* policy is neither ExistsAndValidates nor ExistsAndWarnIfChanges, or there is none).
C4_DispatchUnique ==
    (Returned /\ Target \in Kinds /\ DistinctKindsDeclared /\ ~MustExist) => DispatchUnique

C4_Witness ==
    /\ Returned /\ Target = 1 /\ ~MustExist
    /\ taskType.methods = {RenderCtxK(1), RenderK(2)}
    /\ Len(invoked) = 1 /\ invoked[1].method = RenderCtxK(1).name
    /\ ret = ErrRoutine

Ambiguous(k) ==
    \E m1, m2 \in RenderMethods : m1 # m2 /\ CompatibleWith(m1, k) /\ CompatibleWith(m2, k)

\* C5 as stated: a task with two Render* methods compatible with one target kind fails
\* Render with "Found multiple Render methods" and calls neither, whatever target is active.
\* (Stated for the calls in which the lifecycle step falls through, so that what refutes it
\* is the target that is active.)
C5_Original ==
    (Returned /\ ~MustExist /\ \E k \in Kinds : Ambiguous(k)) =>
        (ret = ErrMultiple /\ invoked = <<>>)

\* C5 as amended: Render fails so, calling nothing, when the active target is a real
\* target of that kind and the lifecycle step falls through.
C5_Ambiguity ==
    (Returned /\ Target \in Kinds /\ Ambiguous(Target) /\ ~MustExist) =>
        (ret = ErrMultiple /\ invoked = <<>> /\ recorded = <<>>)

C5_Witness ==
    /\ Returned /\ Target = 1 /\ ~MustExist
    /\ taskType.methods = {RenderK(1), RenderAny}
    /\ ret = ErrMultiple

\* C7: under ExistsAndValidates with a present actual (and a change list built without
\* error), Render returns "object did not match" if and only if the change list is not empty.
C7_ValidatesOnlyOnDivergence ==
    (/\ Returned /\ ~IsNil(actual) /\ ~oracle.buildFails
     /\ Policy = <<LifecycleExistsAndValidates>>) =>
        (ret = ErrDidNotMatch <=> ChangesFrom(1, actual, expected) # <<>>)

\* C9: when the lifecycle step returns (the policy is ExistsAndValidates or
\* ExistsAndWarnIfChanges), Render returns the same against every target, dry-run or real,
\* nothing is recorded and no routine is called; and the target step runs only when the
\* lifecycle step falls through.
C9_LifecycleBeforeTarget ==
    Returned =>
        /\ MustExist =>
               /\ \A t \in TargetKinds :
                      RenderOutcome(taskType, t, actual, expected, changes, oracle).ret = ret
               /\ recorded = <<>> /\ invoked = <<>>
        /\ (recorded # <<>> \/ invoked # <<>> \/ ret \in {ErrMultiple, ErrNoRenderer, ErrRoutine})
               => ~MustExist

C9_Witness ==
    /\ Returned /\ Target = DryRunKind
    /\ ~IsNil(actual)
    /\ Policy = <<LifecycleExistsAndWarnIfChanges>>
    /\ ret = NoError /\ recorded = <<>>
    /\ stderr # <<>>

(***************************************************************************)
(* The scratch directory: NewContext, NewTempDir, Close.  A path is the    *)
(* sequence of directory names below os.TempDir(); a name is a prefix and  *)
(* the suffix ioutil.TempDir drew.                                         *)
(***************************************************************************)
Suffixes == 1..NumSuffixes
Prefixes == {"a", "b"}
ErrTempDir == "error creating temporary directory"
Under(p, dir) == Len(dir) <= Len(p) /\ SubSeq(p, 1, Len(dir)) = dir
Tree(fsys, dir) == {p \in fsys : Under(p, dir)}

\* ioutil.TempDir(dir, prefix): the directories it can create and return: a name that
\* does not exist yet, in a directory that exists ("" is os.TempDir())
TempDir(fsys, dir, prefix) ==
    IF dir # <<>> /\ dir \notin fsys THEN {}
    ELSE {dir \o <<<<prefix, n>>>> : n \in Suffixes} \ fsys

\* os.RemoveAll(path): the file systems it can leave, with the error it returns: all of
\* the tree removed and nil, or the path and some of its tree left and an error
RemoveAll(fsys, path) ==
    IF path = <<>> \/ path \notin fsys THEN {[fs |-> fsys, err |-> FALSE]}
    ELSE {[fs |-> fsys \ Tree(fsys, path), err |-> FALSE]}
         \cup {[fs |-> (fsys \ Tree(fsys, path)) \cup left, err |-> TRUE] :
                  left \in {l \in SUBSET Tree(fsys, path) : path \in l}}

ForeignDirs == {<<<<"deploy", 1>>>>, <<<<"deploy", 1>>, <<"a", 1>>>>}

\* before NewContext, or with a Context made as a literal, whose Tmpdir is ""
InitScratch ==
    /\ foreign \in {{}, ForeignDirs}
    /\ fs = foreign
    /\ ctx \in {"none", "ok"}
    /\ Tmpdir = <<>>
    /\ handedOut = <<>>
    /\ lastErr = NoError
    /\ warned = FALSE
    /\ closes = 0

NewContextOk ==
    /\ ctx = "none"
    /\ \E t \in TempDir(fs, <<>>, "deploy") :
           /\ fs' = fs \cup {t}
           /\ Tmpdir' = t
    /\ ctx' = "ok"
    /\ lastErr' = NoError
    /\ UNCHANGED <<foreign, handedOut, warned, closes>>

NewContextFails ==
    /\ ctx = "none"
    /\ ctx' = "failed"
    /\ lastErr' = ErrTempDir
    /\ UNCHANGED <<fs, foreign, Tmpdir, handedOut, warned, closes>>

NewContext == NewContextOk \/ NewContextFails

\* the caller does not use the Context after Close
InUse == ctx = "ok" /\ closes = 0

\* NewTempDir making the directory in os.TempDir() instead of c.Tmpdir
NewTempDirOk_InOsTemp(prefix) ==
    /\ InUse
    /\ Len(handedOut) < MaxTempDirs
    /\ \E t \in TempDir(fs, <<>>, prefix) :
           /\ fs' = fs \cup {t}
           /\ handedOut' = Append(handedOut, t)
    /\ lastErr' = NoError
    /\ UNCHANGED <<foreign, ctx, Tmpdir, warned, closes>>

NewTempDirOk(prefix) ==
    /\ InUse
    /\ Len(handedOut) < MaxTempDirs
    /\ \E t \in TempDir(fs, Tmpdir, prefix) :
           /\ fs' = fs \cup {t}
           /\ handedOut' = Append(handedOut, t)
    /\ lastErr' = NoError
    /\ UNCHANGED <<foreign, ctx, Tmpdir, warned, closes>>

NewTempDirFails(prefix) ==
    /\ InUse
    /\ lastErr' = ErrTempDir
    /\ UNCHANGED <<fs, foreign, ctx, Tmpdir, handedOut, warned, closes>>

NewTempDir == \E prefix \in Prefixes : NewTempDirOk(prefix) \/ NewTempDirFails(prefix)

Close ==
    /\ ctx = "ok"
    /\ closes < MaxCloses
    /\ closes' = closes + 1
    /\ IF Tmpdir # <<>>
       THEN \E r \in RemoveAll(fs, Tmpdir) :
                /\ fs' = r.fs
                /\ warned' = r.err
       ELSE UNCHANGED <<fs, warned>>
    /\ lastErr' = NoError
    /\ UNCHANGED <<foreign, ctx, Tmpdir, handedOut>>

(***************************************************************************)
(* Claims about the scratch directory                                      *)
(***************************************************************************)
\* C8: NewContext returns a Context whose Tmpdir exists, or an error and no Context; the
\* paths NewTempDir returns are new, pairwise distinct and below Tmpdir; Close removes
\* Tmpdir and all that was handed out when the removal succeeds, returns no error when it
\* does not, and changes nothing when called again or when Tmpdir is "".
C8_ScratchLifetime ==
    /\ ctx = "failed" => (lastErr = ErrTempDir /\ Tmpdir = <<>> /\ fs = foreign)
    /\ (ctx = "ok" /\ Tmpdir # <<>> /\ closes = 0) => (Tmpdir \in fs /\ Tmpdir \notin foreign)
    /\ \A i, j \in 1..Len(handedOut) : (i # j) => handedOut[i] # handedOut[j]
    /\ \A i \in 1..Len(handedOut) :
           /\ Under(handedOut[i], Tmpdir) /\ handedOut[i] # Tmpdir
           /\ handedOut[i] \notin foreign
           /\ closes = 0 => handedOut[i] \in fs
    /\ closes >= 1 => (lastErr = NoError /\ foreign \subseteq fs)
    /\ (closes >= 1 /\ ~warned /\ Tmpdir # <<>>) =>
           (Tree(fs, Tmpdir) = {} /\ \A i \in 1..Len(handedOut) : handedOut[i] \notin fs)
    /\ (closes >= 1 /\ Tmpdir = <<>>) =>
           (~warned /\ fs = foreign \cup {handedOut[i] : i \in 1..Len(handedOut)})

C8_Witness ==
    /\ closes = 2 /\ ~warned
    /\ Tmpdir # <<>> /\ Len(handedOut) = 2
    /\ foreign # {} /\ fs = foreign

(***************************************************************************)
(* Context.RunTasks hands c.tasks to an executor.  The executor: a task    *)
(* is started once all its dependencies are done, a failed or timed-out    *)
(* task makes its dependents skipped, a cycle is refused before any start. *)
(***************************************************************************)
Tasks == 1..NumTasks

\* the task sets: any dependencies on earlier tasks, and possibly one from the first task
\* on the last, which closes a cycle when the last depends on the first
DepGraphs ==
    {d \in [Tasks -> SUBSET Tasks] :
        /\ \A t \in Tasks \ {1} : d[t] \subseteq 1..(t - 1)
        /\ d[1] \subseteq {NumTasks} \ {1}}

RECURSIVE Ancestors(_, _, _)
\* the tasks reached from t along d in at most n steps
Ancestors(d, t, n) ==
    IF n = 0 THEN {}
    ELSE d[t] \cup UNION {Ancestors(d, u, n - 1) : u \in d[t]}
DependsOn(d, b, a) == a \in Ancestors(d, b, NumTasks)
Cyclic(d) == \E t \in Tasks : DependsOn(d, t, t)

Unsuccessful == {"failed", "timedout", "skipped"}
Settled == {"done"} \cup Unsuccessful

InitExec ==
    /\ deps \in DepGraphs
    /\ tstate = [t \in Tasks |-> "pending"]
    /\ doneAtStart = [t \in Tasks |-> {}]
    /\ run = "notcalled"

\* Context.RunTasks: e.RunTasks(c.tasks, maxTaskDuration) begins; a cycle ends it at once
RunTasks ==
    /\ run = "notcalled"
    /\ run' = IF Cyclic(deps) THEN "DependencyCycle" ELSE "running"
    /\ UNCHANGED <<deps, tstate, doneAtStart>>

\* StartTask starting a task when one of its dependencies is done
StartTask_AnyDependency(t) ==
    /\ run = "running"
    /\ tstate[t] = "pending"
    /\ (deps[t] = {} \/ \E u \in deps[t] : tstate[u] = "done")
    /\ tstate' = [tstate EXCEPT ![t] = "running"]
    /\ doneAtStart' = [doneAtStart EXCEPT ![t] = {u \in Tasks : tstate[u] = "done"}]
    /\ UNCHANGED <<deps, run>>

StartTask(t) ==
    /\ run = "running"
    /\ tstate[t] = "pending"
    /\ \A u \in deps[t] : tstate[u] = "done"
    /\ tstate' = [tstate EXCEPT ![t] = "running"]
    /\ doneAtStart' = [doneAtStart EXCEPT ![t] = {u \in Tasks : tstate[u] = "done"}]
    /\ UNCHANGED <<deps, run>>

\* the task's run returns: no error, an error, or not within maxTaskDuration
EndTask(t, how) ==
    /\ run = "running"
    /\ tstate[t] = "running"
    /\ tstate' = [tstate EXCEPT ![t] = how]
    /\ UNCHANGED <<deps, doneAtStart, run>>

SkipTask(t) ==
    /\ run = "running"
    /\ tstate[t] = "pending"
    /\ \E u \in deps[t] : tstate[u] \in Unsuccessful
    /\ tstate' = [tstate EXCEPT ![t] = "skipped"]
    /\ UNCHANGED <<deps, doneAtStart, run>>

\* every task is settled: RunTasks returns, with an error if any task did not succeed
ReturnRun ==
    /\ run = "running"
    /\ \A t \in Tasks : tstate[t] \in Settled
    /\ run' = IF \A t \in Tasks : tstate[t] = "done" THEN "nil" ELSE "failed"
    /\ UNCHANGED <<deps, tstate, doneAtStart>>

(***************************************************************************)
(* Claims about RunTasks                                                   *)
(***************************************************************************)
Started == {"running", "done", "failed", "timedout"}

\* C6: when B depends on A, directly or not, B is started only after A is done, and B is
\* never started when A failed or timed out.
C6_SchedulingOrder ==
    \A a, b \in Tasks :
        DependsOn(deps, b, a) =>
            /\ tstate[b] \in Started => (a \in doneAtStart[b] /\ tstate[a] = "done")
            /\ tstate[a] \in Unsuccessful => tstate[b] \in {"pending", "skipped"}

\* a chain 1 <- 2 <- 3 run to its end
C6_Witness ==
    /\ NumTasks >= 3
    /\ DependsOn(deps, 3, 1) /\ 1 \notin deps[3]
    /\ tstate[3] = "done"
    /\ run = "nil"

(***************************************************************************)
(* cloudup: assignProxy and incrementIP.  Strings are sequences of         *)
(* characters, so that strings.Split, strings.Contains and strings.Join    *)
(* are what they are in Go.                                                *)
(***************************************************************************)
Str127 == <<"1", "2", "7", ".", "0", ".", "0", ".", "1">>
StrLocalhost == <<"l", "o", "c", "a", "l", "h", "o", "s", "t">>
awsNoProxy == <<"1", "6", "9", ".", "2", "5", "4", ".", "1", "6", "9", ".", "2", "5", "4">>
StrAws == <<"a", "w", "s">>
StrGce == <<"g", "c", "e">>
Comma == ","

\* strings.Contains(s, sub)
Contains(s, sub) ==
    \E i \in 1..(Len(s) - Len(sub) + 1) : SubSeq(s, i, i + Len(sub) - 1) = sub

RECURSIVE Split(_, _)
\* strings.Split(s, sep) for a one-character sep: always at least one element
Split(s, sep) ==
    IF \A i \in 1..Len(s) : s[i] # sep THEN <<s>>
    ELSE LET i == CHOOSE k \in 1..Len(s) : s[k] = sep /\ \A l \in 1..(k - 1) : s[l] # sep
         IN <<SubSeq(s, 1, i - 1)>> \o Split(SubSeq(s, i + 1, Len(s)), sep)

RECURSIVE Join(_, _)
\* strings.Join(elems, sep)
Join(elems, sep) ==
    IF elems = <<>> THEN <<>>
    ELSE IF Len(elems) = 1 THEN elems[1]
    ELSE elems[1] \o <<sep>> \o Join(Tail(elems), sep)

Digits == <<"0", "1", "2", "3", "4", "5", "6", "7", "8", "9">>
IsDigit(c) == \E d \in 1..10 : Digits[d] = c
DigitValue(c) == (CHOOSE d \in 1..10 : Digits[d] = c) - 1

RECURSIVE Atoi(_)
\* the value of a string of decimal digits
Atoi(s) == IF s = <<>> THEN 0 ELSE 10 * Atoi(SubSeq(s, 1, Len(s) - 1)) + DigitValue(s[Len(s)])
IsNumber(s) == s # <<>> /\ Len(s) <= 3 /\ \A i \in 1..Len(s) : IsDigit(s[i])

\* strconv.Itoa of a byte
Itoa(b) ==
    IF b >= 100 THEN <<Digits[(b \div 100) + 1], Digits[((b \div 10) % 10) + 1], Digits[(b % 10) + 1]>>
    ELSE IF b >= 10 THEN <<Digits[(b \div 10) + 1], Digits[(b % 10) + 1]>>
    ELSE <<Digits[b + 1]>>

\* net.IP.String() of an IPv4 address
IPString(ip) == Itoa(ip[1]) \o <<".">> \o Itoa(ip[2]) \o <<".">> \o Itoa(ip[3]) \o <<".">> \o Itoa(ip[4])

RECURSIVE Pow2(_)
Pow2(n) == IF n = 0 THEN 1 ELSE 2 * Pow2(n - 1)
\* the bits of the mask of length ones that fall in byte i, and a byte under them
MaskBits(ones, i) ==
    IF ones >= 8 * i THEN 8 ELSE IF ones <= 8 * (i - 1) THEN 0 ELSE ones - 8 * (i - 1)
Masked(b, bits) == b - (b % Pow2(8 - bits))

\* net.ParseCIDR(s) for IPv4: the address as written, and the network (address masked)
ParseCIDR(s) ==
    LET halves == Split(s, "/")
        failed == [ok |-> FALSE, ip |-> <<0, 0, 0, 0>>, net |-> <<0, 0, 0, 0>>, ones |-> 0]
    IN IF Len(halves) # 2 THEN failed
       ELSE LET parts == Split(halves[1], ".")
            IN IF \/ Len(parts) # 4
                  \/ \E i \in 1..Len(parts) : ~IsNumber(parts[i])
                  \/ ~IsNumber(halves[2])
               THEN failed
               ELSE LET ip == [i \in 1..4 |-> Atoi(parts[i])]
                        ones == Atoi(halves[2])
                    IN IF (\E i \in 1..4 : ip[i] > 255) \/ ones > 32 THEN failed
                       ELSE [ok |-> TRUE, ip |-> ip,
                             net |-> [i \in 1..4 |-> Masked(ip[i], MaskBits(ones, i))],
                             ones |-> ones]

\* ipNet.Contains(ip)
NetContains(net, ones, ip) ==
    \A i \in 1..4 : Masked(ip[i], MaskBits(ones, i)) = net[i]

\* the loop of incrementIP: ip[i]++ from the last byte on, while the byte wraps to 0;
\* carry is whether the four address bytes all wrapped (the carry then leaves the IPv4 form)
Increment(ip) ==
    LET wraps(i) == \A j \in i..4 : ip[j] = 255
    IN [ip |-> [i \in 1..4 |-> IF i = 4 \/ wraps(i + 1) THEN (ip[i] + 1) % 256 ELSE ip[i]],
        carry |-> wraps(1)]

incrementIP(ip, cidr) ==
    LET parsed == ParseCIDR(cidr)
        inc == Increment(ip)
    IN IF ~parsed.ok THEN [ok |-> FALSE, str |-> <<>>]
       ELSE IF inc.carry \/ ~NetContains(parsed.net, parsed.ones, inc.ip)
       THEN [ok |-> FALSE, str |-> <<>>]
       ELSE [ok |-> TRUE, str |-> IPString(inc.ip)]

ErrParseCIDR == "unable to parse Non Masquerade CIDR"
ErrFirstIP == "unable to get first ip address in Non Masquerade CIDR"

RECURSIVE AppendMissing(_, _, _)
\* the loop over the basic list: an exclude that is not "" and that ProxyExcludes does not
\* contain is appended
AppendMissing(slice, proxyExcludes, list) ==
    IF list = <<>> THEN slice
    ELSE LET exclude == Head(list)
         IN AppendMissing(
                IF exclude # <<>> /\ ~Contains(proxyExcludes, exclude)
                THEN Append(slice, exclude) ELSE slice,
                proxyExcludes, Tail(list))

assignProxy(c) ==
    IF c.EgressProxy = <<>>
    THEN [proxy |-> <<>>, err |-> NoError]
    ELSE LET excludes == c.EgressProxy[1].ProxyExcludes
             egressSlice == IF excludes # <<>> THEN Split(excludes, Comma) ELSE <<>>
             parsed == ParseCIDR(c.NonMasqueradeCIDR)
             firstIP == incrementIP(parsed.ip, c.NonMasqueradeCIDR)
         IN IF ~parsed.ok THEN [proxy |-> <<>>, err |-> ErrParseCIDR]
            ELSE IF ~firstIP.ok THEN [proxy |-> <<>>, err |-> ErrFirstIP]
            ELSE LET basic == AppendMissing(egressSlice, excludes,
                                  <<Str127, StrLocalhost, c.ClusterDNSDomain, c.MasterPublicName,
                                    c.Name, firstIP.str, c.NonMasqueradeCIDR>>)
                     withAws == IF c.CloudProvider = StrAws /\ ~Contains(excludes, awsNoProxy)
                                THEN Append(basic, awsNoProxy) ELSE basic
                     withNet == IF c.NetworkCIDR # <<>> /\ ~Contains(excludes, c.NetworkCIDR)
                                THEN Append(withAws, c.NetworkCIDR) ELSE withAws
                 IN [proxy |-> <<[ProxyExcludes |-> Join(withNet, Comma)]>>, err |-> NoError]

\* the clusters assignProxy is given
ProxyExcludesGiven == {<<>>, <<"a", ".", "i", "o">>, <<"a", ".", "i", "o", ",", "b", ".", "i", "o">>, <<"a", "p", "i", ".", "k", ".", "i", "o">>, <<"b", ".", "i", "o", ",", "l", "o", "c", "a", "l", "h", "o", "s", "t">>}
Clusters ==
    [EgressProxy : {<<>>} \cup {<<[ProxyExcludes |-> x]>> : x \in ProxyExcludesGiven},
     ClusterDNSDomain : {<<>>, <<"c", ".", "l">>},
     MasterPublicName : {<<"a", "p", "i", ".", "k", ".", "i", "o">>},
     Name : {<<"k", ".", "i", "o">>},
     NonMasqueradeCIDR : {<<"1", "0", "0", ".", "6", "4", ".", "0", ".", "0", "/", "1", "0">>, <<"1", "0", ".", "0", ".", "2", "5", "5", ".", "2", "5", "5", "/", "1", "6">>, <<"1", "0", ".", "0", ".", "0", ".", "1", "/", "3", "2">>, <<"1", "0", ".", "0", ".", "0", "/", "2", "4">>},
     NetworkCIDR : {<<>>, <<"1", "7", "2", ".", "2", "0", ".", "0", ".", "0", "/", "1", "6">>},
     CloudProvider : {StrAws, StrGce}]

InitProxy ==
    /\ cluster \in Clusters
    /\ ppc = "ready"
    /\ proxyOut = <<>>
    /\ proxyErr = NoError

\* c.Spec.EgressProxy, err = assignProxy(c)
AssignProxy ==
    /\ ppc = "ready"
    /\ LET r == assignProxy(cluster)
       IN /\ proxyOut' = r.proxy
          /\ proxyErr' = r.err
    /\ ppc' = "returned"
    /\ UNCHANGED cluster

(***************************************************************************)
(* Claims about assignProxy                                                *)
(***************************************************************************)
Elements(seq) == {seq[i] : i \in 1..Len(seq)}
FirstIPAfter(cidr) == IPString(Increment(ParseCIDR(cidr).ip).ip)
\* the default no_proxy values of a cluster that are not ""
Defaults(c) ==
    ({Str127, StrLocalhost, c.ClusterDNSDomain, c.MasterPublicName, c.Name,
      FirstIPAfter(c.NonMasqueradeCIDR), c.NonMasqueradeCIDR, c.NetworkCIDR}
     \cup (IF c.CloudProvider = StrAws THEN {awsNoProxy} ELSE {})) \ {<<>>}
UserElements(c) ==
    IF c.EgressProxy[1].ProxyExcludes = <<>> THEN <<>>
    ELSE Split(c.EgressProxy[1].ProxyExcludes, Comma)

\* C10: when assignProxy returns a proxy for a cluster with an EgressProxy, the resulting
\* ProxyExcludes, split on ",", has every default value that is not "" as an element, and
\* begins with the elements the user listed, in their order; with a nil EgressProxy it
\* returns nil.
C10_DefaultsAdded ==
    (ppc = "returned" /\ proxyErr = NoError) =>
        IF cluster.EgressProxy = <<>> THEN proxyOut = <<>>
        ELSE LET result == Split(proxyOut[1].ProxyExcludes, Comma)
                 user == UserElements(cluster)
             IN /\ Defaults(cluster) \subseteq Elements(result)
                /\ Len(user) <= Len(result)
                /\ SubSeq(result, 1, Len(user)) = user

(***************************************************************************)
(* Specifications                                                          *)
(***************************************************************************)
vars == <<rvars, svars, evars, pvars>>

\* no Render call is under way
IdleRender ==
    /\ Target = DryRunKind
    /\ taskType = [methods |-> {}, hasLifecycle |-> FALSE]
    /\ expected = NilTask
    /\ rpc = "idle"
    /\ actual = NilTask
    /\ changes = NilTask
    /\ oracle = NoOracle
    /\ ret = NoError
    /\ stderr = <<>>
    /\ recorded = <<>>
    /\ invoked = <<>>

\* no Context is being made or closed
IdleScratch ==
    /\ fs = {}
    /\ foreign = {}
    /\ ctx = "idle"
    /\ Tmpdir = <<>>
    /\ handedOut = <<>>
    /\ lastErr = NoError
    /\ warned = FALSE
    /\ closes = 0

\* RunTasks has not been called
IdleExec ==
    /\ deps = [t \in Tasks |-> {}]
    /\ tstate = [t \in Tasks |-> "pending"]
    /\ doneAtStart = [t \in Tasks |-> {}]
    /\ run = "idle"

\* assignProxy has not been called
IdleProxy ==
    /\ cluster = <<>>
    /\ ppc = "idle"
    /\ proxyOut = <<>>
    /\ proxyErr = NoError

\* each action leaves the other components alone
RenderStep == RenderCall /\ UNCHANGED <<svars, evars, pvars>>
NewContextOkStep == NewContextOk /\ UNCHANGED <<rvars, evars, pvars>>
NewContextFailsStep == NewContextFails /\ UNCHANGED <<rvars, evars, pvars>>
NewTempDirOkStep == (\E prefix \in Prefixes : NewTempDirOk(prefix)) /\ UNCHANGED <<rvars, evars, pvars>>
NewTempDirFailsStep == (\E prefix \in Prefixes : NewTempDirFails(prefix)) /\ UNCHANGED <<rvars, evars, pvars>>
CloseStep == Close /\ UNCHANGED <<rvars, evars, pvars>>
RunTasksStep == RunTasks /\ UNCHANGED <<rvars, svars, pvars>>
StartTaskStep == (\E t \in Tasks : StartTask(t)) /\ UNCHANGED <<rvars, svars, pvars>>
SucceedStep == (\E t \in Tasks : EndTask(t, "done")) /\ UNCHANGED <<rvars, svars, pvars>>
FailStep == (\E t \in Tasks : EndTask(t, "failed")) /\ UNCHANGED <<rvars, svars, pvars>>
TimeoutStep == (\E t \in Tasks : EndTask(t, "timedout")) /\ UNCHANGED <<rvars, svars, pvars>>
SkipTaskStep == (\E t \in Tasks : SkipTask(t)) /\ UNCHANGED <<rvars, svars, pvars>>
ReturnRunStep == ReturnRun /\ UNCHANGED <<rvars, svars, pvars>>
AssignProxyStep == AssignProxy /\ UNCHANGED <<rvars, svars, evars>>

RenderStart == InitRender /\ IdleScratch /\ IdleExec /\ IdleProxy
NextRender == RenderStep
SpecRender == RenderStart /\ [][NextRender]_vars

ScratchStart == InitScratch /\ IdleRender /\ IdleExec /\ IdleProxy
NextScratch ==
    \/ NewContextOkStep
    \/ NewContextFailsStep
    \/ NewTempDirOkStep
    \/ NewTempDirFailsStep
    \/ CloseStep
SpecScratch == ScratchStart /\ [][NextScratch]_vars

ExecStart == InitExec /\ IdleRender /\ IdleScratch /\ IdleProxy
NextExec ==
    \/ RunTasksStep
    \/ StartTaskStep
    \/ SucceedStep
    \/ FailStep
    \/ TimeoutStep
    \/ SkipTaskStep
    \/ ReturnRunStep
SpecExec == ExecStart /\ [][NextExec]_vars

ProxyStart == InitProxy /\ IdleRender /\ IdleScratch /\ IdleExec
NextProxy == AssignProxyStep
SpecProxy == ProxyStart /\ [][NextProxy]_vars

====
